---- MODULE Spec2Model ----
(***************************************************************************)
(* FinLyzer: the stock-analysis core (src/stock_analyzer.py), the news      *)
(* scraper (src/news_scraper.py) and the dashboard's run (src/app.py).      *)
(*   - StockAnalyzer._normalize_symbol      symbol normalisation            *)
(*   - StockAnalyzer.get_stock_info         candidate-by-candidate fetch    *)
(*   - StockAnalyzer.analyze_stocks         the batch loop                  *)
(*   - StockAnalyzer.calculate_correlations alignment + Pearson correlation *)
(*   - NewsScraper.get_stock_news           headlines from three sources    *)
(*   - app.main / app.analyze_stocks        one click on "Analyze Stocks"   *)
(* Symbols are strings; a price series is a function from dates to closes.  *)
(***************************************************************************)
EXTENDS Integers, Sequences, FiniteSets, TLC

VARIABLES
    raw,                \* _normalize_symbol: the argument under test
    norm_result,        \* _normalize_symbol: <<>> before the call, <<r>> after
    symbols,            \* analyze_stocks: the list of symbols
    idx,                \* analyze_stocks: position of the symbol being fetched
    results,            \* analyze_stocks: the dict being built
    pc,                 \* get_stock_info: where the current call stands
    normalized_symbol,  \* get_stock_info local
    info,               \* get_stock_info local (quote snapshot)
    hist_data,          \* get_stock_info local (Close column of the history)
    suffix_i,           \* get_stock_info local: index in ['.NS', '.BO']
    trace,              \* provider requests and sleeps of the current call
    calls,              \* the get_stock_info calls that returned: symbol, value
    stock_data,         \* calculate_correlations: the argument
    correlation_data,   \* calculate_correlations: <<>> before, <<r>> after
    max_headlines,      \* get_stock_news: the argument
    source_i,           \* get_stock_news: index in `sources`
    headlines,          \* get_stock_news local
    news_trace,         \* sources consulted and sleeps of the call
    news_result,        \* get_stock_news: <<>> before the return, <<r>> after
    news_pc,            \* get_stock_news: where the call stands
    app_pc,             \* app.py: where the click handler stands
    session_state,      \* st.session_state
    news_data,          \* app.analyze_stocks local
    news_i,             \* app.analyze_stocks: position in the news loop
    notice,             \* what the last click reported (st.error / status text)
    run,                \* clicks on "Analyze Stocks" so far
    session_before,     \* st.session_state as it was when the last click came
    news_calls          \* the get_stock_news calls of the run: arguments, outcome

vars == <<raw, norm_result, symbols, idx, results, pc, normalized_symbol, info,
          hist_data, suffix_i, trace, calls, stock_data, correlation_data,
          max_headlines, source_i, headlines, news_trace, news_result, news_pc,
          app_pc, session_state, news_data, news_i, notice, run, session_before,
          news_calls>>

normVars == <<raw, norm_result>>
fetchVars == <<symbols, idx, results, pc, normalized_symbol, info, hist_data,
               suffix_i, trace, calls>>
corrVars == <<stock_data, correlation_data>>
newsVars == <<max_headlines, source_i, headlines, news_trace, news_result, news_pc>>
appVars == <<app_pc, session_state, news_data, news_i, notice, run,
             session_before, news_calls>>

-----------------------------------------------------------------------------
(* Bounds of the model *)

MaxSymLen == 7      \* longest raw string given to _normalize_symbol
MaxSymbols == 2     \* longest list given to analyze_stocks
MaxStocks == 2      \* most records in a mapping given to calculate_correlations
MaxHeadlines == 3   \* largest max_headlines given to get_stock_news
MaxPerSource == 2   \* most headlines one news source returns

-----------------------------------------------------------------------------
(* Python values *)

None == [t |-> "None"]
Num(n) == [t |-> "num", n |-> n]        \* a number, in thousandths
Str(s) == [t |-> "str", s |-> s]
Absent == [t |-> "absent"]              \* a key the dict does not hold

\* bool(x) of a value
Truthy(x) ==
    CASE x.t = "None" -> FALSE
      [] x.t = "num" -> x.n # 0
      [] x.t = "str" -> x.s # ""
      [] OTHER -> TRUE

\* d.get(key) and d.get(key, default) on a dict modelled as a record of fields
Get(d, key) == IF d[key] = Absent THEN None ELSE d[key]
\* a plausible slip: the default left out of the call
GetOr_noDefault(d, key, default) == Get(d, key)
GetOr(d, key, default) == IF d[key] = Absent THEN default ELSE d[key]

\* dict with insertion order: keys in order, val the mapping
EmptyDict == [keys |-> <<>>, val |-> <<>>]
Keys(d) == {d.keys[i] : i \in 1..Len(d.keys)}
DictSet(d, k, v) ==
    IF k \in Keys(d)
    THEN [keys |-> d.keys, val |-> [x \in Keys(d) |-> IF x = k THEN v ELSE d.val[x]]]
    ELSE [keys |-> Append(d.keys, k),
          val |-> [x \in Keys(d) \cup {k} |-> IF x = k THEN v ELSE d.val[x]]]

-----------------------------------------------------------------------------
(* str methods used by the analyzer *)

LowerChars == "abcdefghijklmnopqrstuvwxyz"
UpperChars == "ABCDEFGHIJKLMNOPQRSTUVWXYZ"
Whitespace == {" ", "\t", "\n"}

CharAt(s, i) == SubSeq(s, i, i)

UpperChar(c) ==
    IF \E i \in 1..Len(LowerChars) : CharAt(LowerChars, i) = c
    THEN CharAt(UpperChars, CHOOSE i \in 1..Len(LowerChars) : CharAt(LowerChars, i) = c)
    ELSE c

RECURSIVE Upper(_)
Upper(s) == IF s = "" THEN "" ELSE UpperChar(CharAt(s, 1)) \o Upper(Tail(s))

RECURSIVE LStrip(_)
LStrip(s) == IF s # "" /\ CharAt(s, 1) \in Whitespace THEN LStrip(Tail(s)) ELSE s

RECURSIVE RStrip(_)
RStrip(s) ==
    IF s # "" /\ CharAt(s, Len(s)) \in Whitespace
    THEN RStrip(SubSeq(s, 1, Len(s) - 1))
    ELSE s

Strip(s) == RStrip(LStrip(s))

\* sub in s
Contains(sub, s) ==
    \E i \in 1..(Len(s) - Len(sub) + 1) : SubSeq(s, i, i + Len(sub) - 1) = sub

EndsWith(s, suf) ==
    Len(s) >= Len(suf) /\ SubSeq(s, Len(s) - Len(suf) + 1, Len(s)) = suf

-----------------------------------------------------------------------------
(* StockAnalyzer._normalize_symbol *)

indian_patterns ==
    {"RELIANCE", "TCS", "INFY", "HDFCBANK", "ICICIBANK", "SBIN", "ITC",
     "HINDUNILVR", "BHARTIARTL", "KOTAKBANK", "LT", "ASIANPAINT", "MARUTI",
     "TITAN", "NESTLEIND", "ULTRACEMCO", "POWERGRID", "NTPC", "ONGC",
     "COALINDIA", "WIPRO", "TECHM", "HCLTECH", "DRREDDY", "SUNPHARMA", "CIPLA",
     "DIVISLAB", "BAJFINANCE", "BAJAJFINSV", "AXISBANK", "INDUSINDBK",
     "TATAMOTORS", "TATASTEEL", "JSWSTEEL", "HINDALCO", "ADANIPORTS",
     "ADANIENT", "GRASIM", "BRITANNIA", "HEROMOTOCO", "BAJAJ-AUTO", "EICHERMOT",
     "BPCL", "IOC", "SHREECEM", "AMBUJACEM", "ACC", "VEDL", "SAIL", "NMDC",
     "JINDALSTEL", "TATACHEM", "UPL", "PIDILITIND", "DMART", "GODREJCP",
     "MARICO", "DABUR", "COLPAL", "PGHH", "MCDOWELL-N", "UBL", "APOLLOHOSP",
     "FORTIS", "LUPIN", "BIOCON", "CADILAHC", "AUROPHARMA", "TORNTPHARM",
     "ALKEM", "CONCOR", "SIEMENS", "ABB", "BHEL", "CROMPTON", "HAVELLS",
     "VOLTAS", "BLUESTAR", "CUMMINSIND", "BOSCHLTD", "MOTHERSUMI", "AMARAJABAT",
     "EXIDEIND", "MFSL", "SRTRANSFIN", "CHOLAFIN", "PFC", "RECLTD", "IRCTC",
     "FINOPB", "INOXGREEN"}

ShortTickerLen == 6

\* a plausible slip: exact membership in the list instead of `pattern in symbol`
LikelyIndian_membership(symbol) ==
    symbol \in indian_patterns \/ Len(symbol) > ShortTickerLen

\* line 30: any(pattern in symbol for pattern in indian_patterns) or len(symbol) > 6
LikelyIndian(symbol) ==
    (\E pattern \in indian_patterns : Contains(pattern, symbol))
        \/ Len(symbol) > ShortTickerLen

NormalizeSymbol(symbol0) ==
    LET symbol == Strip(Upper(symbol0))
    IN  IF Contains(".", symbol) THEN symbol
        ELSE IF LikelyIndian(symbol) THEN symbol \o ".NS"
        ELSE symbol

-----------------------------------------------------------------------------
(* app.py, lines 18-23: st.session_state when the page is first loaded; the   *)
(* keys correlation_data and selected_stocks are not there yet: <<>> stands   *)
(* for such a key, <<v>> for one that holds v                                 *)

SessionInit ==
    [analysis_complete |-> FALSE, stock_data |-> EmptyDict,
     news_data |-> EmptyDict, correlation_data |-> <<>>,
     selected_stocks |-> <<>>]

-----------------------------------------------------------------------------
(* The market-data provider (yfinance), seen from get_stock_info *)

\* history(...)['Close']: a function from the dates of the rows to the closes
EmptySeries == <<>>
IsEmpty(h) == DOMAIN h = {}
Rows(h) == Cardinality(DOMAIN h)
FirstDate(h) == CHOOSE d \in DOMAIN h : \A e \in DOMAIN h : d <= e
LastDate(h) == CHOOSE d \in DOMAIN h : \A e \in DOMAIN h : d >= e
ILocFirst(h) == h[FirstDate(h)]
ILocLast(h) == h[LastDate(h)]

\* ticker.info: every key is a number, None, or not in the dict
InfoFull ==
    [currentPrice |-> Num(150000), longName |-> Str("Long Name Ltd"),
     shortName |-> Str("Short"), trailingPE |-> Num(30000),
     forwardPE |-> Num(28000), dividendYield |-> Num(25),
     priceToBook |-> Num(4000), debtToEquity |-> Num(150000),
     returnOnEquity |-> Num(150)]
InfoSparse ==
    [currentPrice |-> Num(0), longName |-> Absent, shortName |-> Str("Short"),
     trailingPE |-> None, forwardPE |-> Absent, dividendYield |-> Num(0),
     priceToBook |-> Num(0), debtToEquity |-> Absent, returnOnEquity |-> None]
InfoEmpty ==
    [currentPrice |-> Absent, longName |-> Absent, shortName |-> Absent,
     trailingPE |-> Absent, forwardPE |-> Absent, dividendYield |-> Absent,
     priceToBook |-> Absent, debtToEquity |-> Absent, returnOnEquity |-> Absent]

OneRow == (1 :> 100000)
TwoRows == (1 :> 100000 @@ 2 :> 125000)

\* what one candidate's requests (Ticker, .info, .history) give: they raise, or
\* they return a snapshot and a history
Raise == [raises |-> TRUE, info |-> InfoEmpty, hist |-> EmptySeries]
Answer(i, h) == [raises |-> FALSE, info |-> i, hist |-> h]
Responses ==
    {Raise,
     Answer(InfoFull, EmptySeries), Answer(InfoEmpty, EmptySeries),
     Answer(InfoFull, OneRow), Answer(InfoFull, TwoRows),
     Answer(InfoSparse, TwoRows), Answer(InfoEmpty, TwoRows)}

\* the answers enumerated for one request: all of Responses when the analyzer
\* is called on its own, four of them when the dashboard runs (their closes
\* are small, the correlation of the run is computed exactly)
LowRow == (1 :> 4)
LowRows == (1 :> 4 @@ 2 :> 5)
AppResponses ==
    {Raise, Answer(InfoEmpty, EmptySeries), Answer(InfoFull, LowRows),
     Answer(InfoSparse, LowRow)}
ProviderAnswers == IF app_pc = "off" THEN Responses ELSE AppResponses

RequestEvent(s, resp) == [kind |-> "request", symbol |-> s, resp |-> resp]
SleepEvent == [kind |-> "sleep", symbol |-> "", resp |-> Raise]

\* a plausible slip: the time.sleep(1) before a retry left out
Retry_noSleep(s, resp) == <<RequestEvent(s, resp)>>

\* lines 52-56 and 62-65: a later candidate is requested after time.sleep(1)
Retry(s, resp) == <<SleepEvent, RequestEvent(s, resp)>>

-----------------------------------------------------------------------------
(* StockAnalyzer.get_stock_info, lines 75-107: the record of a non-empty history *)

RECURSIVE Gcd(_, _)
Gcd(a, b) == IF b = 0 THEN a ELSE Gcd(b, a % b)
Abs(a) == IF a < 0 THEN -a ELSE a

\* the number num/den, kept exact
Ratio(num, den) ==
    LET g == Gcd(Abs(num), Abs(den))
    IN  IF g = 0 THEN [t |-> "ratio", num |-> num, den |-> den]
        ELSE [t |-> "ratio", num |-> num \div g, den |-> den \div g]

\* a plausible slip: the change taken over the last close, not the first
SixMonthChange_overLast(hist) ==
    IF Rows(hist) > 1
    THEN Ratio((ILocLast(hist) - ILocFirst(hist)) * 100, ILocLast(hist))
    ELSE Num(0)

\* lines 75-79
SixMonthChange(hist) ==
    IF Rows(hist) > 1
    THEN Ratio((ILocLast(hist) - ILocFirst(hist)) * 100, ILocFirst(hist))
    ELSE Num(0)

\* a plausible slip: line 83 tests only `is None`, a live price of 0 is kept
CurrentPrice_keepsZero(inf, hist) ==
    LET p == Get(inf, "currentPrice")
        q == IF p = None
             THEN (IF ~IsEmpty(hist) THEN Num(ILocLast(hist)) ELSE Num(0))
             ELSE p
    IN  IF Truthy(q) THEN q ELSE Num(0)

\* lines 82-84 and 94
CurrentPrice(inf, hist) ==
    LET p == Get(inf, "currentPrice")
        q == IF p = None \/ p = Num(0)
             THEN (IF ~IsEmpty(hist) THEN Num(ILocLast(hist)) ELSE Num(0))
             ELSE p
    IN  IF Truthy(q) THEN q ELSE Num(0)

CompanyName(inf, symbol) ==
    IF Truthy(Get(inf, "longName")) THEN Get(inf, "longName")
    ELSE IF Truthy(Get(inf, "shortName")) THEN Get(inf, "shortName")
    ELSE Str(symbol)

\* a plausible slip: the `if info.get(key) else None` left out, a missing or
\* zero fraction gives the number 0
Percent_zero(inf, key) ==
    IF Truthy(Get(inf, key)) THEN Num(GetOr(inf, key, Num(0)).n * 100) ELSE Num(0)

\* lines 98 and 101: info.get(key, 0) * 100 if info.get(key) else None
Percent(inf, key) ==
    IF Truthy(Get(inf, key)) THEN Num(GetOr(inf, key, Num(0)).n * 100) ELSE None

BuildRecord(symbol, normalized, inf, hist) ==
    [symbol |-> symbol,
     normalized_symbol |-> normalized,
     company_name |-> CompanyName(inf, symbol),
     current_price |-> CurrentPrice(inf, hist),
     six_month_change |-> SixMonthChange(hist),
     pe_ratio |-> GetOr(inf, "trailingPE", Str("N/A")),
     forward_pe |-> GetOr(inf, "forwardPE", Str("N/A")),
     dividend_yield |-> Percent(inf, "dividendYield"),
     price_to_book |-> GetOr(inf, "priceToBook", Str("N/A")),
     debt_to_equity |-> GetOr(inf, "debtToEquity", Str("N/A")),
     roe |-> Percent(inf, "returnOnEquity"),
     price_history |-> hist]

-----------------------------------------------------------------------------
(* StockAnalyzer.get_stock_info, lines 39-73 and 111-113: the candidates *)

IndianSuffixes == <<".NS", ".BO">>

\* line 51: the BSE retry is taken
NeedsBse(normalized, hist) == IsEmpty(hist) /\ EndsWith(normalized, ".NS")

\* line 60: the suffix loop is entered
NeedsSuffixLoop(normalized, hist) == IsEmpty(hist) /\ ~Contains(".", normalized)

AfterBse(normalized, hist) ==
    IF NeedsSuffixLoop(normalized, hist) THEN "suffix" ELSE "finish"

AfterFirst(normalized, hist) ==
    IF NeedsBse(normalized, hist) THEN "bse" ELSE AfterBse(normalized, hist)

\* a plausible slip: line 68 forgotten, the accepted candidate is not recorded
AcceptedSymbol_stale(previous, try_symbol, hist) == previous

\* lines 67-68: normalized_symbol after one round of the suffix loop
AcceptedSymbol(previous, try_symbol, hist) ==
    IF ~IsEmpty(hist) THEN try_symbol ELSE previous

\* a plausible slip: the check of line 71 left out
ReturnValue_unchecked(symbol, normalized, inf, hist) ==
    BuildRecord(symbol, normalized, inf, hist)

\* lines 71-109: what the call returns once the candidates are done
ReturnValue(symbol, normalized, inf, hist) ==
    IF IsEmpty(hist) THEN None ELSE BuildRecord(symbol, normalized, inf, hist)

\* the symbols analyze_stocks is given in this model
RawSymbols == {"AAPL", "TCS", "TCS.NS", "TCS.BO", "infy "}

RECURSIVE ListsUpTo(_, _)
ListsUpTo(S, n) ==
    IF n = 0 THEN {<<>>}
    ELSE LET shorter == ListsUpTo(S, n - 1)
         IN  shorter \cup {Append(l, x) : l \in shorter, x \in S}

Symbol == symbols[idx]

\* lines 41-48: the normalized symbol is requested
FirstRequest ==
    /\ pc = "call"
    /\ \E resp \in ProviderAnswers :
        LET n == NormalizeSymbol(Symbol)
        IN  /\ trace' = <<RequestEvent(n, resp)>>
            /\ normalized_symbol' = n
            /\ IF resp.raises
               THEN /\ pc' = "except"
                    /\ UNCHANGED <<info, hist_data>>
               ELSE /\ info' = resp.info
                    /\ hist_data' = resp.hist
                    /\ pc' = AfterFirst(n, resp.hist)
    /\ UNCHANGED <<symbols, idx, results, suffix_i, calls, normVars, corrVars, newsVars, appVars>>

\* lines 52-57: sleep, then symbol + '.BO' is requested
BseRequest ==
    /\ pc = "bse"
    /\ \E resp \in ProviderAnswers :
        LET bse_symbol == Symbol \o ".BO"
        IN  /\ trace' = trace \o Retry(bse_symbol, resp)
            /\ IF resp.raises
               THEN /\ pc' = "except"
                    /\ UNCHANGED <<info, hist_data, normalized_symbol>>
               ELSE /\ info' = resp.info
                    /\ hist_data' = resp.hist
                    /\ normalized_symbol' = bse_symbol
                    /\ pc' = AfterBse(bse_symbol, resp.hist)
    /\ UNCHANGED <<symbols, idx, results, suffix_i, calls, normVars, corrVars, newsVars, appVars>>

\* lines 61-69: one round of the loop over ['.NS', '.BO']
SuffixRequest ==
    /\ pc = "suffix"
    /\ \E resp \in ProviderAnswers :
        LET try_symbol == Symbol \o IndianSuffixes[suffix_i]
        IN  /\ trace' = trace \o Retry(try_symbol, resp)
            /\ IF resp.raises
               THEN /\ pc' = "except"
                    /\ UNCHANGED <<info, hist_data, normalized_symbol, suffix_i>>
               ELSE /\ info' = resp.info
                    /\ hist_data' = resp.hist
                    /\ normalized_symbol' =
                           AcceptedSymbol(normalized_symbol, try_symbol, resp.hist)
                    /\ IF ~IsEmpty(resp.hist) \/ suffix_i = Len(IndianSuffixes)
                       THEN pc' = "finish" /\ suffix_i' = 1
                       ELSE pc' = "suffix" /\ suffix_i' = suffix_i + 1
    /\ UNCHANGED <<symbols, idx, results, calls, normVars, corrVars, newsVars, appVars>>

\* a plausible slip: the `if stock_data:` of line 122 left out
LoopBody_unguarded(res, symbol, value) == DictSet(res, symbol, value)

\* analyze_stocks, lines 121-125: the value of the call is stored or dropped
LoopBody(res, symbol, value) ==
    IF value # None THEN DictSet(res, symbol, value) ELSE res

Advance(value) ==
    /\ results' = LoopBody(results, Symbol, value)
    /\ calls' = Append(calls, [symbol |-> Symbol, value |-> value])
    /\ idx' = idx + 1
    /\ pc' = IF idx < Len(symbols) THEN "call" ELSE "done"
    /\ normalized_symbol' = ""
    /\ info' = InfoEmpty
    /\ hist_data' = EmptySeries
    /\ UNCHANGED <<symbols, suffix_i, trace, normVars, corrVars, newsVars, appVars>>

\* lines 71-109: the call returns None or the record; the loop goes on
ReturnStock ==
    /\ pc = "finish"
    /\ Advance(ReturnValue(Symbol, normalized_symbol, info, hist_data))

\* lines 111-113: an exception of the provider ends the call with None
ExceptReturn ==
    /\ pc = "except"
    /\ Advance(None)

\* analyze_stocks is called with a list of symbols; nothing else is running
Init ==
    /\ symbols \in ListsUpTo(RawSymbols, MaxSymbols)
    /\ idx = 1
    /\ results = EmptyDict
    /\ pc = IF symbols = <<>> THEN "done" ELSE "call"
    /\ normalized_symbol = ""
    /\ info = InfoEmpty
    /\ hist_data = EmptySeries
    /\ suffix_i = 1
    /\ trace = <<>>
    /\ calls = <<>>
    /\ raw = ""
    /\ norm_result = <<"">>
    /\ stock_data = EmptyDict
    /\ correlation_data = <<>>
    /\ max_headlines = 0
    /\ source_i = 1
    /\ headlines = <<>>
    /\ news_trace = <<>>
    /\ news_result = <<>>
    /\ news_pc = "idle"
    /\ app_pc = "off"
    /\ session_state = SessionInit
    /\ news_data = EmptyDict
    /\ news_i = 1
    /\ notice = ""
    /\ run = 0
    /\ session_before = SessionInit
    /\ news_calls = <<>>

-----------------------------------------------------------------------------
(* _normalize_symbol as an operation on every short string of an alphabet *)

NormAlphabet == {"A", "B", "b", "."}
NormSamples ==
    {" abb ", "infy ", "  b", "A B", "AAPL", "ABBV", "TCS", "RELIANCE", "GOOGLE",
     "ALPHABET", "TCS.NS", "tcs.bo", "LT", "ALT", "BAJAJ-AUTO", " ", "ABCDEF ",
     " ABCDEFG"}

RECURSIVE StringsUpTo(_)
StringsUpTo(n) ==
    IF n = 0 THEN {""}
    ELSE LET shorter == StringsUpTo(n - 1)
         IN  shorter \cup {s \o c : s \in shorter, c \in NormAlphabet}

\* _normalize_symbol is about to be called on a string; nothing else is running
InitNorm ==
    /\ raw \in StringsUpTo(MaxSymLen) \cup NormSamples
    /\ norm_result = <<>>
    /\ symbols = <<>>
    /\ idx = 1
    /\ results = EmptyDict
    /\ pc = "done"
    /\ normalized_symbol = ""
    /\ info = InfoEmpty
    /\ hist_data = EmptySeries
    /\ suffix_i = 1
    /\ trace = <<>>
    /\ calls = <<>>
    /\ stock_data = EmptyDict
    /\ correlation_data = <<>>
    /\ max_headlines = 0
    /\ source_i = 1
    /\ headlines = <<>>
    /\ news_trace = <<>>
    /\ news_result = <<>>
    /\ news_pc = "idle"
    /\ app_pc = "off"
    /\ session_state = SessionInit
    /\ news_data = EmptyDict
    /\ news_i = 1
    /\ notice = ""
    /\ run = 0
    /\ session_before = SessionInit
    /\ news_calls = <<>>

Normalize ==
    /\ norm_result = <<>>
    /\ norm_result' = <<NormalizeSymbol(raw)>>
    /\ UNCHANGED <<raw, fetchVars, corrVars, newsVars, appVars>>

-----------------------------------------------------------------------------
(* StockAnalyzer.calculate_correlations *)

HasKey(data, key) == key \in DOMAIN data

KeepsSeries(sd, k) ==
    HasKey(sd.val[k], "price_history") /\ ~IsEmpty(sd.val[k].price_history)

\* lines 133-137: the non-empty price histories, in the order of the mapping
PriceData(sd) ==
    LET Kept(k) == KeepsSeries(sd, k)
        keys == SelectSeq(sd.keys, Kept)
    IN  [keys |-> keys,
         val |-> [k \in {keys[i] : i \in 1..Len(keys)} |-> sd.val[k].price_history]]

\* a plausible slip: one series is taken for enough
TooFew_one(price_data) == Len(price_data.keys) < 1

\* line 139
TooFew(price_data) == Len(price_data.keys) < 2

\* a cell of a DataFrame: <<v>>, or <<>> for NaN
NaNCell == <<>>

\* line 143, pd.DataFrame(price_data): one column per series, one row per date
\* of any series, NaN where a series has no such date
DataFrame(price_data) ==
    LET cols == Keys(price_data)
        index == UNION {DOMAIN price_data.val[k] : k \in cols}
    IN  [columns |-> price_data.keys,
         index |-> index,
         at |-> [c \in index \X cols |->
                    IF c[1] \in DOMAIN price_data.val[c[2]]
                    THEN <<price_data.val[c[2]][c[1]]>>
                    ELSE NaNCell]]

ColumnSet(df) == {df.columns[i] : i \in 1..Len(df.columns)}

\* a plausible slip: fillna(0) in the place of dropna()
DropNa_fillzero(df) ==
    [columns |-> df.columns,
     index |-> df.index,
     at |-> [c \in df.index \X ColumnSet(df) |->
                IF df.at[c] = NaNCell THEN <<0>> ELSE df.at[c]]]

\* a plausible slip: dropna(subset=[first column])
DropNa_firstColumn(df) ==
    LET index == {d \in df.index : df.at[<<d, df.columns[1]>>] # NaNCell}
    IN  [columns |-> df.columns,
         index |-> index,
         at |-> [c \in index \X ColumnSet(df) |-> df.at[c]]]

\* line 144, df.dropna(): the rows with a NaN in any column are dropped
DropNa(df) ==
    LET index == {d \in df.index : \A k \in ColumnSet(df) : df.at[<<d, k>>] # NaNCell}
    IN  [columns |-> df.columns,
         index |-> index,
         at |-> [c \in index \X ColumnSet(df) |-> df.at[c]]]

\* line 146, df.empty
DfEmpty(df) == df.index = {} \/ df.columns = <<>>

\* a correlation coefficient, exact: sign * sqrt(num / den), or NaN
NaN == [t |-> "nan"]
Coefficient(sign, num, den) ==
    LET g == Gcd(num, den)
    IN  [t |-> "r", sign |-> sign, num |-> num \div g, den |-> den \div g]
One == Coefficient(1, 1, 1)

RECURSIVE SumProduct(_, _, _)
SumProduct(x, y, S) ==
    IF S = {} THEN 0
    ELSE LET d == CHOOSE e \in S : TRUE
         IN  x[d] * y[d] + SumProduct(x, y, S \ {d})

\* Pearson's r of x and y over the dates S: NaN when either has no variance
Pearson(x, y, S) ==
    LET n == Cardinality(S)
        one == [d \in S |-> 1]
        sum_x == SumProduct(x, one, S)
        sum_y == SumProduct(y, one, S)
        sxy == n * SumProduct(x, y, S) - sum_x * sum_y
        sxx == n * SumProduct(x, x, S) - sum_x * sum_x
        syy == n * SumProduct(y, y, S) - sum_y * sum_y
    IN  IF sxx * syy = 0 THEN NaN
        ELSE Coefficient(IF sxy > 0 THEN 1 ELSE IF sxy < 0 THEN -1 ELSE 0,
                         sxy * sxy, sxx * syy)

Position(seq, k) == CHOOSE i \in 1..Len(seq) : seq[i] = k

\* line 150, df.corr(): for each pair of columns, Pearson over the rows where
\* both hold a value; computed for the pairs in column order and mirrored
CorrCell(df, a, b) ==
    LET both == {d \in df.index : df.at[<<d, a>>] # NaNCell /\ df.at[<<d, b>>] # NaNCell}
        x == [d \in both |-> df.at[<<d, a>>][1]]
        y == [d \in both |-> df.at[<<d, b>>][1]]
    IN  Pearson(x, y, both)

Corr(df) ==
    [labels |-> df.columns,
     cell |-> [c \in ColumnSet(df) \X ColumnSet(df) |->
                  IF Position(df.columns, c[1]) <= Position(df.columns, c[2])
                  THEN CorrCell(df, c[1], c[2])
                  ELSE CorrCell(df, c[2], c[1])]]

\* lines 131-152, on records that hold a price series or no 'price_history' key
CalculateCorrelations(sd) ==
    LET price_data == PriceData(sd)
    IN  IF TooFew(price_data) THEN None
        ELSE LET df_prices == DropNa(DataFrame(price_data))
             IN  IF DfEmpty(df_prices) THEN None ELSE Corr(df_prices)

\* the mappings calculate_correlations is given in this model
CorrSymbols == {"A", "B", "C"}
CorrDates == {1, 2, 3}
ClosePrices == {1, 2}
CorrSeries == UNION {[D -> ClosePrices] : D \in SUBSET CorrDates}
CorrRecords == {[price_history |-> h] : h \in CorrSeries} \cup {[symbol |-> "X"]}

\* a mapping is being filled for calculate_correlations; nothing else is running
InitCorr ==
    /\ stock_data = EmptyDict
    /\ correlation_data = <<>>
    /\ raw = ""
    /\ norm_result = <<"">>
    /\ symbols = <<>>
    /\ idx = 1
    /\ results = EmptyDict
    /\ pc = "done"
    /\ normalized_symbol = ""
    /\ info = InfoEmpty
    /\ hist_data = EmptySeries
    /\ suffix_i = 1
    /\ trace = <<>>
    /\ calls = <<>>
    /\ max_headlines = 0
    /\ source_i = 1
    /\ headlines = <<>>
    /\ news_trace = <<>>
    /\ news_result = <<>>
    /\ news_pc = "idle"
    /\ app_pc = "off"
    /\ session_state = SessionInit
    /\ news_data = EmptyDict
    /\ news_i = 1
    /\ notice = ""
    /\ run = 0
    /\ session_before = SessionInit
    /\ news_calls = <<>>

\* the caller puts one more record into the mapping
AddRecord ==
    /\ correlation_data = <<>>
    /\ Len(stock_data.keys) < MaxStocks
    /\ \E k \in CorrSymbols \ Keys(stock_data), r \in CorrRecords :
           stock_data' = DictSet(stock_data, k, r)
    /\ UNCHANGED <<correlation_data, normVars, fetchVars, newsVars, appVars>>

Correlate ==
    /\ correlation_data = <<>>
    /\ correlation_data' = <<CalculateCorrelations(stock_data)>>
    /\ UNCHANGED <<stock_data, normVars, fetchVars, newsVars, appVars>>

-----------------------------------------------------------------------------
(* NewsScraper.get_stock_news (src/news_scraper.py, lines 13-42) *)

\* lines 18-22: the list `sources`
Sources == <<"google", "yahoo", "bing">>

\* what a source call gives: it raises, or it returns a list of headlines
HeadlineTexts == {"h1", "h2", "h3"}
SourceRaises == [raises |-> TRUE, headlines |-> <<>>]
SourceReturns(l) == [raises |-> FALSE, headlines |-> l]
SourceOutputs ==
    {SourceRaises} \cup
    {SourceReturns(l) : l \in ListsUpTo(HeadlineTexts, MaxPerSource)}

ConsultEvent(source, out) == [kind |-> "consult", source |-> source, out |-> out]
NewsSleepEvent == [kind |-> "sleep", source |-> "", out |-> SourceRaises]

\* a plausible slip: the duplicates are kept
Dedupe_keepAll(l) == l

\* line 35: list(dict.fromkeys(l)), the first occurrences in order
RECURSIVE Dedupe(_)
Dedupe(l) ==
    IF l = <<>> THEN <<>>
    ELSE LET front == Dedupe(SubSeq(l, 1, Len(l) - 1))
             x == l[Len(l)]
         IN  IF \E i \in 1..Len(front) : front[i] = x THEN front
             ELSE Append(front, x)

\* l[:n]
Slice(l, n) ==
    IF n >= 0 THEN SubSeq(l, 1, IF n < Len(l) THEN n ELSE Len(l))
    ELSE SubSeq(l, 1, IF Len(l) + n > 0 THEN Len(l) + n ELSE 0)

\* lines 26 and 31-33: headlines after a source; a raising source adds nothing
Extend(hl, out) == IF out.raises THEN hl ELSE hl \o out.headlines

\* a plausible slip: `>` for `>=` in line 27
CapReached_strict(hl, max) == Len(hl) > max

\* line 27
CapReached(hl, max) == Len(hl) >= max

\* lines 27-28: the loop is left after this source
Breaks(hl, out, max) == ~out.raises /\ CapReached(Extend(hl, out), max)

\* lines 35-38
NewsReturnValue(hl, max) == Slice(Dedupe(hl), max)

\* lines 24-33: the headlines collected from source i on
RECURSIVE Collect(_, _, _, _)
Collect(outs, i, hl, max) ==
    IF i > Len(Sources) THEN hl
    ELSE IF Breaks(hl, outs[i], max) THEN Extend(hl, outs[i])
    ELSE Collect(outs, i + 1, Extend(hl, outs[i]), max)

\* the value of a whole call, given what each source would answer
GetStockNews(outs, max) == NewsReturnValue(Collect(outs, 1, <<>>, max), max)

\* get_stock_news is called with some max_headlines; nothing else is running
InitNews ==
    /\ max_headlines \in 0..MaxHeadlines
    /\ source_i = 1
    /\ headlines = <<>>
    /\ news_trace = <<>>
    /\ news_result = <<>>
    /\ news_pc = "loop"
    /\ raw = ""
    /\ norm_result = <<"">>
    /\ symbols = <<>>
    /\ idx = 1
    /\ results = EmptyDict
    /\ pc = "done"
    /\ normalized_symbol = ""
    /\ info = InfoEmpty
    /\ hist_data = EmptySeries
    /\ suffix_i = 1
    /\ trace = <<>>
    /\ calls = <<>>
    /\ stock_data = EmptyDict
    /\ correlation_data = <<>>
    /\ app_pc = "off"
    /\ session_state = SessionInit
    /\ news_data = EmptyDict
    /\ news_i = 1
    /\ notice = ""
    /\ run = 0
    /\ session_before = SessionInit
    /\ news_calls = <<>>

\* lines 24-33: one round of the loop over the sources
ConsultSource ==
    /\ news_pc = "loop"
    /\ \E out \in SourceOutputs :
        /\ headlines' = Extend(headlines, out)
        /\ news_trace' =
               news_trace \o <<ConsultEvent(Sources[source_i], out)>> \o
               (IF out.raises \/ Breaks(headlines, out, max_headlines)
                THEN <<>> ELSE <<NewsSleepEvent>>)
        /\ IF Breaks(headlines, out, max_headlines) \/ source_i = Len(Sources)
           THEN news_pc' = "return" /\ source_i' = source_i
           ELSE news_pc' = "loop" /\ source_i' = source_i + 1
    /\ UNCHANGED <<max_headlines, news_result, normVars, fetchVars, corrVars, appVars>>

\* lines 35-38: duplicates removed, the first max_headlines returned
ReturnNews ==
    /\ news_pc = "return"
    /\ news_result' = <<NewsReturnValue(headlines, max_headlines)>>
    /\ news_pc' = "done"
    /\ UNCHANGED <<max_headlines, source_i, headlines, news_trace, normVars,
                   fetchVars, corrVars, appVars>>

-----------------------------------------------------------------------------
(* The dashboard: main (src/app.py, lines 25-53) and analyze_stocks (55-112) *)

\* news_scraper.py line 13: max_headlines of the call in app.py line 80
DefaultMaxHeadlines == 10

\* line 41: the lists of upper-cased, trimmed symbols the text area yields
AppStockLists ==
    {<<>>, <<"AAPL">>, <<"TCS">>, <<"AAPL", "TCS">>, <<"TCS", "TCS">>}

\* the clicks on "Analyze Stocks" of one session
Runs == {1, 2}

\* what the three news sources answer during one get_stock_news call
AppNewsOutputs ==
    {<<SourceReturns(<<>>), SourceRaises, SourceReturns(<<>>)>>,
     <<SourceReturns(<<"h1", "h2">>), SourceReturns(<<"h2">>),
       SourceReturns(<<"h3">>)>>}

\* lines 47, 72 and 100: what a click reports
NoSymbols == "Please enter at least one stock symbol"
FetchFailed == "Failed to fetch stock data. Please check the stock symbols and try again."
Complete == "Analysis complete!"

\* a plausible slip: the check of line 71 left out
NoStockData_never(sd) == FALSE

\* line 71: `not stock_data`
NoStockData(sd) == sd.keys = <<>>

\* the page is loaded; nothing has been clicked
InitApp ==
    /\ app_pc = "idle"
    /\ session_state = SessionInit
    /\ news_data = EmptyDict
    /\ news_i = 1
    /\ notice = ""
    /\ run = 0
    /\ session_before = SessionInit
    /\ news_calls = <<>>
    /\ symbols = <<>>
    /\ idx = 1
    /\ results = EmptyDict
    /\ pc = "done"
    /\ normalized_symbol = ""
    /\ info = InfoEmpty
    /\ hist_data = EmptySeries
    /\ suffix_i = 1
    /\ trace = <<>>
    /\ calls = <<>>
    /\ raw = ""
    /\ norm_result = <<"">>
    /\ stock_data = EmptyDict
    /\ correlation_data = <<>>
    /\ max_headlines = 0
    /\ source_i = 1
    /\ headlines = <<>>
    /\ news_trace = <<>>
    /\ news_result = <<>>
    /\ news_pc = "idle"

\* main, lines 41-47, and analyze_stocks, lines 57-68: the button is clicked;
\* an empty list is reported, any other list is handed to the analyzer
AnalyzeClick ==
    /\ app_pc = "idle"
    /\ run + 1 \in Runs
    /\ run' = run + 1
    /\ \E stocks \in AppStockLists :
        /\ symbols' = stocks
        /\ IF stocks = <<>>
           THEN notice' = NoSymbols /\ app_pc' = "idle" /\ pc' = "done"
           ELSE notice' = "" /\ app_pc' = "fetch" /\ pc' = "call"
    /\ idx' = 1
    /\ results' = EmptyDict
    /\ calls' = <<>>
    /\ trace' = <<>>
    /\ news_data' = EmptyDict
    /\ news_i' = 1
    /\ stock_data' = EmptyDict
    /\ correlation_data' = <<>>
    /\ session_before' = session_state
    /\ news_calls' = <<>>
    /\ UNCHANGED <<normalized_symbol, info, hist_data, suffix_i, session_state,
                   normVars, newsVars>>

\* lines 68-76: the analyzer has returned; an empty mapping ends the run
FetchReturn ==
    /\ app_pc = "fetch"
    /\ pc = "done"
    /\ IF NoStockData(results)
       THEN notice' = FetchFailed /\ app_pc' = "idle"
       ELSE notice' = notice /\ app_pc' = "news"
    /\ UNCHANGED <<session_state, news_data, news_i, run, session_before,
                   news_calls, fetchVars, normVars, corrVars, newsVars>>

\* what a get_stock_news call does in the loop: it raises, or returns a list
NewsCallRaises == [raises |-> TRUE, headlines |-> <<>>]
NewsCallReturns(hl) == [raises |-> FALSE, headlines |-> hl]
NewsCallOutcomes ==
    {NewsCallRaises} \cup
    {NewsCallReturns(GetStockNews(outs, DefaultMaxHeadlines)) :
         outs \in AppNewsOutputs}

\* a plausible slip: the default of the second .get left out
NewsCompanyName_noDefault(sd, stock) ==
    IF stock \in Keys(sd) THEN sd.val[stock].company_name ELSE None

\* line 79: stock_data.get(stock, {}).get('company_name', stock)
NewsCompanyName(sd, stock) ==
    IF stock \in Keys(sd) THEN sd.val[stock].company_name ELSE Str(stock)

\* lines 82 and 85: what is stored for the stock
NewsEntry(out) == IF out.raises THEN <<>> ELSE out.headlines

\* lines 77-86: the headlines of one stock; a failing lookup leaves []
FetchNews ==
    /\ app_pc = "news"
    /\ news_i <= Len(symbols)
    /\ \E out \in NewsCallOutcomes :
        /\ news_data' = DictSet(news_data, symbols[news_i], NewsEntry(out))
        /\ news_calls' =
               Append(news_calls,
                      [company_name |-> NewsCompanyName(results, symbols[news_i]),
                       stock_symbol |-> symbols[news_i], out |-> out])
    /\ news_i' = news_i + 1
    /\ UNCHANGED <<app_pc, session_state, notice, run, session_before,
                   fetchVars, normVars, corrVars, newsVars>>

\* a plausible slip: line 96 left out, selected_stocks keeps its old value
SessionAfterCommit_keepsSelection(ss, sd, nd, cd, stocks) ==
    [analysis_complete |-> TRUE, stock_data |-> sd, news_data |-> nd,
     correlation_data |-> <<cd>>, selected_stocks |-> ss.selected_stocks]

\* lines 93-97: five assignments in a row, nothing between them
SessionAfterCommit(ss, sd, nd, cd, stocks) ==
    [analysis_complete |-> TRUE, stock_data |-> sd, news_data |-> nd,
     correlation_data |-> <<cd>>, selected_stocks |-> <<stocks>>]

\* lines 88-105: the correlations, then the five session values are assigned
CommitResults ==
    /\ app_pc = "news"
    /\ news_i > Len(symbols)
    /\ stock_data' = results
    /\ correlation_data' = <<CalculateCorrelations(results)>>
    /\ session_state' =
           SessionAfterCommit(session_state, results, news_data,
                              CalculateCorrelations(results), symbols)
    /\ notice' = Complete
    /\ app_pc' = "idle"
    /\ UNCHANGED <<news_data, news_i, run, session_before, news_calls, fetchVars,
                   normVars, newsVars>>

-----------------------------------------------------------------------------
(* Specifications *)

\* analyze_stocks over a list of symbols
Next == FirstRequest \/ BseRequest \/ SuffixRequest \/ ReturnStock \/ ExceptReturn
Spec == Init /\ [][Next]_vars

\* _normalize_symbol over the strings of NormAlphabet
NextNorm == Normalize
SpecNorm == InitNorm /\ [][NextNorm]_vars

\* calculate_correlations over the mappings of at most MaxStocks records
NextCorr == AddRecord \/ Correlate
SpecCorr == InitCorr /\ [][NextCorr]_vars

\* get_stock_news over the outputs of its three sources
NextNews == ConsultSource \/ ReturnNews
SpecNews == InitNews /\ [][NextNews]_vars

\* a session of the dashboard: clicks on "Analyze Stocks", one run after another
NextApp ==
    \/ AnalyzeClick
    \/ FirstRequest
    \/ BseRequest
    \/ SuffixRequest
    \/ ReturnStock
    \/ ExceptReturn
    \/ FetchReturn
    \/ FetchNews
    \/ CommitResults
SpecApp == InitApp /\ [][NextApp]_vars

-----------------------------------------------------------------------------
(* Properties of get_stock_info and analyze_stocks, checked under Spec *)

IsRequest(e) == e.kind = "request"
Requests == SelectSeq(trace, IsRequest)

\* the call `trace` belongs to has returned, and what it returned
CallReturned == pc \in {"call", "done"} /\ calls # <<>>
LastCall == calls[Len(calls)]
\* the symbol of the call `trace` belongs to
TraceSymbol ==
    IF pc \in {"call", "done"}
    THEN (IF calls = <<>> THEN "" ELSE LastCall.symbol)
    ELSE Symbol

HasRows(e) == ~e.resp.raises /\ ~IsEmpty(e.resp.hist)
WithRows == {i \in 1..Len(Requests) : HasRows(Requests[i])}
FirstWithRows == CHOOSE i \in WithRows : \A j \in WithRows : i <= j

\* C1: a call returns a record exactly when some requested candidate had a
\* non-empty history, and then the record's normalized_symbol is the first such
\* candidate in the order of the requests, and its price_history and every
\* field taken from the quote snapshot come from that candidate's answers.
C1_FirstNonEmptyAccepted ==
    CallReturned =>
        /\ (LastCall.value # None) <=> (WithRows # {})
        /\ WithRows # {} =>
            LET e == Requests[FirstWithRows]
            IN  /\ LastCall.value.normalized_symbol = e.symbol
                /\ LastCall.value.price_history = e.resp.hist
                /\ LastCall.value =
                       BuildRecord(LastCall.symbol, e.symbol, e.resp.info, e.resp.hist)

\* C1 witness: two candidates answered with an empty history and a snapshot,
\* the third with rows and another snapshot, and the call returned a record.
C1_Witness ==
    /\ CallReturned
    /\ Len(Requests) = 3
    /\ LastCall.value # None
    /\ Requests[1].resp = Answer(InfoFull, EmptySeries)
    /\ Requests[2].resp = Answer(InfoFull, EmptySeries)
    /\ Requests[3].resp = Answer(InfoSparse, TwoRows)
    /\ LastCall.value.normalized_symbol = "AAPL.BO"

\* C2: for a symbol that already holds a '.', every provider request of the
\* call is for that symbol (upper-cased and trimmed) and for no other.
C2_SuffixedIsSoleCandidate ==
    Contains(".", TraceSymbol) =>
        \A i \in 1..Len(Requests) : Requests[i].symbol = Strip(Upper(TraceSymbol))

\* the candidates of a symbol: itself when suffixed, two when the normalizer
\* guessed a suffix, three otherwise
NumCandidates(symbol) ==
    LET s == Strip(Upper(symbol))
    IN  IF Contains(".", s) THEN 1
        ELSE IF NormalizeSymbol(symbol) # s THEN 2
        ELSE 3

\* C4: analyze_stocks runs to the end of its list whatever the calls return:
\* every symbol of the list is fetched, in order; a call in which every
\* candidate answered with an empty history returns None; and the keys of the
\* result are exactly the symbols for which a call returned a record.
C4_BatchNeverAborts ==
    /\ pc # "done" => idx \in 1..Len(symbols) /\ Len(calls) = idx - 1
    /\ \A i \in 1..Len(calls) : calls[i].symbol = symbols[i]
    /\ (CallReturned /\ \A i \in 1..Len(Requests) :
            ~Requests[i].resp.raises /\ IsEmpty(Requests[i].resp.hist))
          => LastCall.value = None
    /\ Keys(results) = {calls[i].symbol : i \in {j \in 1..Len(calls) : calls[j].value # None}}
    /\ pc = "done" => Len(calls) = Len(symbols)

\* C4 witness: the first symbol of two failed on empty histories, the second
\* was still fetched and is the only key.
C4_Witness ==
    /\ pc = "done"
    /\ Len(symbols) = 2
    /\ calls[1].value = None
    /\ calls[2].value # None
    /\ symbols[1] # symbols[2]
    /\ Keys(results) = {symbols[2]}

\* C5: every record in the result mapping has a non-empty price_history.
C5_RecordsHaveHistory ==
    \A k \in Keys(results) : ~IsEmpty(results.val[k].price_history)

\* C5 witness: a call whose last history was empty returned, nothing was kept
\* for it, and the mapping holds a record of another symbol.
C5_Witness ==
    /\ CallReturned
    /\ Len(calls) = 2
    /\ Requests # <<>>
    /\ \A i \in 1..Len(Requests) : ~HasRows(Requests[i]) /\ ~Requests[i].resp.raises
    /\ LastCall.symbol \notin Keys(results)
    /\ Keys(results) # {}

\* C6: a candidate whose request raises is treated like one with an empty
\* history: when it is not the last candidate of the symbol, the call goes on
\* to request the next one.
C6_RaiseTriesNextCandidate ==
    CallReturned =>
        \A i \in 1..Len(Requests) :
            (Requests[i].resp.raises /\ i < NumCandidates(LastCall.symbol))
                => Len(Requests) > i

\* the record the last call returned, and the answers of the accepted candidate
Returned == CallReturned /\ LastCall.value # None
Accepted == Requests[FirstWithRows].resp
IsNumber(x) == x.t = "num"
\* the dates of a non-empty history that no other date precedes / follows
Earliest(h) == CHOOSE d \in DOMAIN h : \A e \in DOMAIN h : d <= e
Latest(h) == CHOOSE d \in DOMAIN h : \A e \in DOMAIN h : e <= d

PercentFields == {<<"dividend_yield", "dividendYield">>, <<"roe", "returnOnEquity">>}
PlainFields ==
    {<<"pe_ratio", "trailingPE">>, <<"forward_pe", "forwardPE">>,
     <<"price_to_book", "priceToBook">>, <<"debt_to_equity", "debtToEquity">>}

\* C13: in a returned record, dividend_yield and roe are one hundred times the
\* provider's fraction when the snapshot holds a non-zero number for it, and
\* the marker None when the fraction is missing, None or zero; neither field
\* is ever the number 0.
C13_PercentOrMarker ==
    Returned =>
        \A f \in PercentFields :
            LET x == Accepted.info[f[2]]
                y == LastCall.value[f[1]]
            IN  /\ (IsNumber(x) /\ x.n # 0) => y = Num(x.n * 100)
                /\ x \in {Absent, None, Num(0)} => y = None
                /\ y # Num(0)

\* C13 witness: a record built from a snapshot whose dividend yield is the
\* number 0 and whose return on equity is None, and one built from fractions
\* 0.025 and 0.15, are both in the mapping.
C13_Witness ==
    /\ pc = "done"
    /\ \E k \in Keys(results) :
        /\ results.val[k].dividend_yield = Num(2500)
        /\ results.val[k].roe = Num(15000)
    /\ Returned
    /\ Accepted.info = InfoSparse
    /\ LastCall.value.dividend_yield = None
    /\ LastCall.value.roe = None

\* C14 as stated: each of the six fundamentals of a returned record is a
\* number or the one sentinel 'N/A', the four plain ones equal the provider's
\* number when there is one and the sentinel otherwise, and none is None.
C14_OneSentinelNeverNull ==
    Returned =>
        /\ \A f \in PercentFields \cup PlainFields :
            IsNumber(LastCall.value[f[1]]) \/ LastCall.value[f[1]] = Str("N/A")
        /\ \A f \in PlainFields :
            LET x == Accepted.info[f[2]]
            IN  LastCall.value[f[1]] = IF IsNumber(x) THEN x ELSE Str("N/A")

\* C14 amended: the four plain fundamentals equal what the snapshot holds under
\* the key, a stored None included, and the string 'N/A' only when the key is
\* missing; dividend_yield and roe are a number or None; so each of the six is
\* a number, 'N/A' or None.
C14_PlainOrDefault ==
    Returned =>
        /\ \A f \in PlainFields :
            LET x == Accepted.info[f[2]]
            IN  LastCall.value[f[1]] = IF x = Absent THEN Str("N/A") ELSE x
        /\ \A f \in PercentFields :
            IsNumber(LastCall.value[f[1]]) \/ LastCall.value[f[1]] = None
        /\ \A f \in PercentFields \cup PlainFields :
            \/ IsNumber(LastCall.value[f[1]])
            \/ LastCall.value[f[1]] \in {Str("N/A"), None}

\* C14 witness: a record built from a snapshot that stores None as trailing
\* P/E, has no forward P/E and has a price-to-book of 0.
C14_Witness ==
    /\ Returned
    /\ Accepted.info = InfoSparse
    /\ LastCall.value.pe_ratio = None
    /\ LastCall.value.forward_pe = Str("N/A")
    /\ LastCall.value.price_to_book = Num(0)
    /\ LastCall.value.dividend_yield = None

\* C15: six_month_change of a returned record is 0 when the accepted history
\* has fewer than two rows, and otherwise the number c with
\* c * first = (last - first) * 100, first and last being the closes of the
\* earliest and of the latest date.
C15_SixMonthChange ==
    Returned =>
        LET h == Accepted.hist
            c == LastCall.value.six_month_change
        IN  IF Rows(h) < 2 THEN c = Num(0)
            ELSE /\ c.t = "ratio"
                 /\ c.den # 0
                 /\ c.num * h[Earliest(h)] =
                        (h[Latest(h)] - h[Earliest(h)]) * 100 * c.den

\* C15 witness: a record of a one-row history (change 0) is in the mapping and
\* the last call returned a record of the history 100 -> 125, change 25.
C15_Witness ==
    /\ Returned
    /\ Accepted.hist = TwoRows
    /\ LastCall.value.six_month_change = Ratio(25, 1)
    /\ \E k \in Keys(results) :
        /\ Rows(results.val[k].price_history) = 1
        /\ results.val[k].six_month_change = Num(0)

\* C16: current_price of a returned record is the snapshot's currentPrice when
\* that is a non-zero number, and otherwise the close of the latest date of the
\* accepted history.
C16_CurrentPrice ==
    Returned =>
        LET p == Accepted.info.currentPrice
            h == Accepted.hist
        IN  LastCall.value.current_price =
                IF IsNumber(p) /\ p.n # 0 THEN p ELSE Num(h[Latest(h)])

\* C16 witness: the snapshot's currentPrice is 0 and the record holds the
\* latest close; another record in the mapping holds its snapshot's live price.
C16_Witness ==
    /\ Returned
    /\ Accepted = Answer(InfoSparse, TwoRows)
    /\ LastCall.value.current_price = Num(125000)
    /\ \E k \in Keys(results) : results.val[k].current_price = Num(150000)

\* the candidates the claim lists for an unsuffixed symbol
ExpectedCandidates(symbol) ==
    LET s == Strip(Upper(symbol))
    IN  IF NormalizeSymbol(symbol) # s
        THEN <<s \o ".NS", s \o ".BO">>
        ELSE <<s, s \o ".NS", s \o ".BO">>

\* C18: for a symbol S without '.', the requests of a call are a prefix of
\* [S.NS, S.BO] when the normalizer guessed a suffix and of [S, S.NS, S.BO]
\* otherwise (S upper-cased and trimmed), and every request but the last
\* returned an empty history.
C18_CandidatesInOrder ==
    ~Contains(".", TraceSymbol) =>
        /\ Len(Requests) <= Len(ExpectedCandidates(TraceSymbol))
        /\ \A i \in 1..Len(Requests) :
            /\ Requests[i].symbol = ExpectedCandidates(TraceSymbol)[i]
            /\ i < Len(Requests) =>
                ~Requests[i].resp.raises /\ IsEmpty(Requests[i].resp.hist)

\* C19: within a call, the first event is a request, and every later request
\* comes directly after a sleep, which comes after the request before it.
C19_SleepBeforeRetry ==
    \A i \in 1..Len(trace) :
        /\ i = 1 => trace[i].kind = "request"
        /\ (i > 1 /\ trace[i].kind = "request") =>
            /\ trace[i - 1].kind = "sleep"
            /\ i > 2 /\ trace[i - 2].kind = "request"

\* C19 witness: a call that requested three candidates has returned.
C19_Witness ==
    /\ CallReturned
    /\ Len(Requests) = 3
    /\ Len(trace) = 5

-----------------------------------------------------------------------------
(* Properties of _normalize_symbol, checked under SpecNorm *)

Normalized == norm_result # <<>>
Canonical(s) == s = Strip(Upper(s))
HoldsListedName(u) ==
    \E p \in indian_patterns : \E i, j \in 1..Len(u) : SubSeq(u, i, j) = p

\* C3 as stated: for an unsuffixed symbol S (already upper-case and trimmed)
\* the result is S + '.NS' exactly when S is a member of the list of names or
\* len(S) > 6, and the bare S otherwise.
C3_SuffixIffMember ==
    (Normalized /\ Canonical(raw) /\ ~Contains(".", raw)) =>
        LET member == raw \in indian_patterns \/ Len(raw) > 6
        IN  /\ (norm_result[1] = raw \o ".NS") <=> member
            /\ ~member => norm_result[1] = raw

\* C3 amended: for an unsuffixed symbol, with S its upper-cased and trimmed
\* form, the result is S + '.NS' exactly when S holds one of the listed names
\* as a substring or len(S) > 6, and the bare S otherwise.
C3_SuffixIffHoldsName ==
    (Normalized /\ ~Contains(".", raw)) =>
        LET u == Strip(Upper(raw))
            likely == HoldsListedName(u) \/ Len(u) > 6
        IN  /\ (norm_result[1] = u \o ".NS") <=> likely
            /\ ~likely => norm_result[1] = u

\* C3 witness: a short symbol that is no member of the list but holds the
\* listed name ABB got the suffix.
C3_Witness ==
    /\ Normalized
    /\ raw = "ABBA"
    /\ raw \notin indian_patterns
    /\ norm_result = <<"ABBA.NS">>

-----------------------------------------------------------------------------
(* Properties of calculate_correlations, checked under SpecCorr *)

Calculated == correlation_data # <<>>
Result == correlation_data[1]

\* the symbols whose record holds a non-empty price_history
Usable ==
    {k \in Keys(stock_data) :
        /\ "price_history" \in DOMAIN stock_data.val[k]
        /\ stock_data.val[k].price_history # <<>>}
HistoryOf(k) == stock_data.val[k].price_history
\* the dates every usable series has
CommonDates ==
    {d \in UNION {DOMAIN HistoryOf(k) : k \in Usable} :
        \A k \in Usable : d \in DOMAIN HistoryOf(k)}

\* C7: with fewer than 2 records of non-empty price_history the call returns
\* None: no matrix, and no exception.
C7_TooFewGivesNone ==
    (Calculated /\ Cardinality(Usable) < 2) => Result = None

\* C7 witness: two records, only one with a non-empty history, and None.
C7_Witness ==
    /\ Calculated
    /\ Len(stock_data.keys) = 2
    /\ Cardinality(Usable) = 1
    /\ Result = None

\* C8: with at least 2 non-empty series and at least 1 date common to all of
\* them, the call returns a matrix that is symmetric and whose diagonal
\* entries all equal 1.0.
C8_SymmetricUnitDiagonal ==
    (Calculated /\ Cardinality(Usable) >= 2 /\ CommonDates # {}) =>
        /\ Result # None
        /\ \A a, b \in Usable : Result.cell[<<a, b>>] = Result.cell[<<b, a>>]
        /\ \A a \in Usable : Result.cell[<<a, a>>] = One

\* C9: with at least 2 non-empty series, the call returns None when no date
\* is common to all of them, and otherwise a matrix over the usable symbols in
\* which every cell is the correlation of the two series over the common
\* dates alone.
C9_OnlyCommonDates ==
    (Calculated /\ Cardinality(Usable) >= 2) =>
        /\ (CommonDates = {}) <=> (Result = None)
        /\ CommonDates # {} =>
            /\ {Result.labels[i] : i \in 1..Len(Result.labels)} = Usable
            /\ \A a, b \in Usable :
                   Result.cell[<<a, b>>] = Pearson(HistoryOf(a), HistoryOf(b), CommonDates)

\* C9 witness: one series has a date the other lacks, a matrix was returned,
\* and its cell for the two is a proper coefficient over the two shared dates.
C9_Witness ==
    /\ Calculated
    /\ Result # None
    /\ \E a, b \in Usable :
           /\ DOMAIN HistoryOf(a) # DOMAIN HistoryOf(b)
           /\ Cardinality(CommonDates) = 2
           /\ Result.cell[<<a, b>>] # NaN

\* the records of stock_data inserted in the order A, B, C
InDictionaryOrder(k) == k \in Keys(stock_data)
Reinserted ==
    [keys |-> SelectSeq(<<"A", "B", "C">>, InDictionaryOrder), val |-> stock_data.val]

\* C10: whatever the order in which the records were inserted, the call
\* returns what it returns for the same records inserted in the order A, B, C:
\* None for both, or matrices whose cell for every pair of symbols holds the
\* same value. (Every insertion order is a state, so any two orders agree.)
C10_OrderIndependent ==
    Calculated =>
        LET other == CalculateCorrelations(Reinserted)
        IN  /\ (other = None) <=> (Result = None)
            /\ Result # None =>
                   \A a, b \in Usable : other.cell[<<a, b>>] = Result.cell[<<a, b>>]

\* C10 witness: a matrix of two symbols whose records came in the order that
\* is not the alphabetical one, with a cell that is a proper coefficient.
C10_Witness ==
    /\ Calculated
    /\ Result # None
    /\ stock_data.keys = <<"B", "A">>
    /\ Result.cell[<<"A", "B">>] # NaN

-----------------------------------------------------------------------------
(* Properties of get_stock_news, checked under SpecNews *)

IsConsult(e) == e.kind = "consult"
Consults == SelectSeq(news_trace, IsConsult)
NewsReturned == news_pc = "done"
NewsResult == news_result[1]

\* the headlines the consulted sources returned, source after source
RECURSIVE Offered(_)
Offered(n) ==
    IF n = 0 THEN <<>> ELSE Offered(n - 1) \o Consults[n].out.headlines
FirstAt(x, l) == CHOOSE i \in 1..Len(l) : l[i] = x /\ \A j \in 1..(i - 1) : l[j] # x

\* C17: the list get_stock_news returns has at most max_headlines entries, no
\* entry twice, only headlines some consulted source returned, and these in
\* the order of their first occurrence across the sources, which are consulted
\* in the order Google, Yahoo, Bing.
C17_CappedUniqueInOrder ==
    /\ \A i \in 1..Len(Consults) : Consults[i].source = Sources[i]
    /\ NewsReturned =>
        LET all == Offered(Len(Consults))
        IN  /\ Len(NewsResult) <= max_headlines
            /\ \A i, j \in 1..Len(NewsResult) : i # j => NewsResult[i] # NewsResult[j]
            /\ \A i \in 1..Len(NewsResult) : \E k \in 1..Len(all) : all[k] = NewsResult[i]
            /\ \A i, j \in 1..Len(NewsResult) :
                   i < j => FirstAt(NewsResult[i], all) < FirstAt(NewsResult[j], all)

\* C17 witness: three sources were consulted, one of them raised, a headline
\* came from two sources and is returned once.
C17_Witness ==
    /\ NewsReturned
    /\ Len(Consults) = 3
    /\ Consults[2].out.raises
    /\ Consults[1].out.headlines = <<"h1">>
    /\ Consults[3].out.headlines = <<"h1", "h2">>
    /\ NewsResult = <<"h1", "h2">>

\* the number of headlines collected once the n-th consulted source is through
Collected(n) == Len(Offered(n))

\* C20 as stated: the sources are consulted in list order, and a source is
\* consulted only when every source before it raised or returned no headline.
C20_LaterOnlyAfterEmpty ==
    \A i \in 1..Len(Consults) :
        /\ Consults[i].source = Sources[i]
        /\ \A j \in 1..(i - 1) : Consults[j].out.headlines = <<>>

\* C20 amended: the sources are consulted one after another in list order; a
\* source is consulted only when the sources before it have returned or raised
\* and fewer than max_headlines headlines are collected, duplicates counted;
\* once a source's return brings the collection to max_headlines, no later
\* source is consulted; otherwise all three are.
C20_LaterOnlyBelowCap ==
    /\ \A i \in 1..Len(Consults) :
        /\ Consults[i].source = Sources[i]
        /\ \A j \in 1..(i - 1) :
               Consults[j].out.raises \/ Collected(j) < max_headlines
    /\ news_pc # "loop" =>
        \/ Len(Consults) = Len(Sources)
        \/ /\ ~Consults[Len(Consults)].out.raises
           /\ Collected(Len(Consults)) >= max_headlines
    /\ news_pc = "loop" => Len(Consults) = source_i - 1

\* C20 witness: Google returned a headline, Yahoo was consulted all the same,
\* its return reached max_headlines and Bing was not consulted.
C20_Witness ==
    /\ NewsReturned
    /\ max_headlines = 3
    /\ Len(Consults) = 2
    /\ Consults[1].out.headlines = <<"h1">>
    /\ Consults[2].out.headlines = <<"h2", "h3">>

-----------------------------------------------------------------------------
(* Properties of the dashboard's runs, checked under SpecApp *)

\* a run has ended and no other has started: `symbols`, `calls` and `results`
\* are those of the most recent run
RunEnded == app_pc = "idle" /\ run > 0
BatchFailed == notice \in {NoSymbols, FetchFailed}
Resolved == {calls[i].symbol : i \in {j \in 1..Len(calls) : calls[j].value # None}}

\* C11: a run reports a failure exactly when its list of tickers is empty or
\* no ticker of the list resolved; a failed run has no stock record and
\* computes no correlation; every other run completes without a failure
\* report, with the records of exactly the resolved tickers, its correlation
\* computed and its results stored.
C11_FailureIffNothingResolved ==
    RunEnded =>
        /\ Len(calls) = Len(symbols)
        /\ BatchFailed <=> (symbols = <<>> \/ Resolved = {})
        /\ BatchFailed => results = EmptyDict /\ correlation_data = <<>>
        /\ ~BatchFailed =>
            /\ notice = Complete
            /\ Keys(results) = Resolved
            /\ correlation_data = <<CalculateCorrelations(results)>>
            /\ session_state.analysis_complete
            /\ session_state.stock_data = results
            /\ session_state.selected_stocks = <<symbols>>

\* C11 witness: a run over two tickers in which one resolved completed, and
\* the next run, over two tickers of which none resolved, reported a failure.
C11_Witness ==
    /\ RunEnded
    /\ run = 2
    /\ notice = FetchFailed
    /\ Len(symbols) = 2
    /\ session_state.analysis_complete
    /\ session_state.selected_stocks # <<>>
    /\ Len(session_state.selected_stocks[1]) = 2
    /\ Cardinality(Keys(session_state.stock_data)) = 1

\* C12: once a run over a non-empty list has ended, the stock records held in
\* the session are those of that run, and what is displayed is that run's.
C12_OnlyLatestRunHeld ==
    (RunEnded /\ symbols # <<>>) =>
        /\ session_state.stock_data = results
        /\ session_state.analysis_complete =>
               session_state.selected_stocks = <<symbols>>

Range(seq) == {seq[i] : i \in 1..Len(seq)}
RunCompleted == RunEnded /\ notice = Complete

\* the four result values of a session are set and fit together as the values
\* one run assigns: records of some of the selected tickers, at least one;
\* news for exactly the selected tickers; the correlation of the records
FromOneRun(ss) ==
    /\ ss.selected_stocks # <<>>
    /\ ss.correlation_data # <<>>
    /\ Keys(ss.stock_data) # {}
    /\ Keys(ss.stock_data) \subseteq Range(ss.selected_stocks[1])
    /\ \A k \in Keys(ss.stock_data) : ss.stock_data.val[k].symbol = k
    /\ Keys(ss.news_data) = Range(ss.selected_stocks[1])
    /\ ss.correlation_data = <<CalculateCorrelations(ss.stock_data)>>

LastNewsCall(k) ==
    LET made == {i \in 1..Len(news_calls) : news_calls[i].stock_symbol = k}
    IN  news_calls[CHOOSE i \in made : \A j \in made : j <= i]

\* C22: the news loop makes one get_stock_news call per input ticker, in
\* order, with the record's company name for a resolved ticker and the ticker
\* itself for an unresolved one; in a completed run the keys of news_data are
\* exactly the input tickers, each once, so they include the keys of
\* stock_data; and each ticker's entry is what its own call returned, or the
\* empty list when that call failed, whatever the other calls did.
C22_NewsForEveryTicker ==
    /\ \A i \in 1..Len(news_calls) :
        /\ news_calls[i].stock_symbol = symbols[i]
        /\ news_calls[i].company_name =
               IF symbols[i] \in Resolved
               THEN results.val[symbols[i]].company_name
               ELSE Str(symbols[i])
    /\ RunCompleted =>
        /\ Len(news_calls) = Len(symbols)
        /\ Keys(session_state.news_data) = Range(symbols)
        /\ Len(session_state.news_data.keys) = Cardinality(Range(symbols))
        /\ Keys(session_state.stock_data) \subseteq Keys(session_state.news_data)
        /\ \A k \in Range(symbols) :
               session_state.news_data.val[k] =
                   IF LastNewsCall(k).out.raises THEN <<>>
                   ELSE LastNewsCall(k).out.headlines

\* C22 witness: of AAPL and TCS only TCS resolved; the news call for AAPL was
\* made under the name AAPL and failed, the one for TCS returned headlines;
\* news_data has both tickers, stock_data only TCS.
C22_Witness ==
    /\ RunCompleted
    /\ symbols = <<"AAPL", "TCS">>
    /\ Keys(session_state.stock_data) = {"TCS"}
    /\ Keys(session_state.news_data) = {"AAPL", "TCS"}
    /\ news_calls[1].company_name = Str("AAPL")
    /\ news_calls[1].out.raises
    /\ session_state.news_data.val["AAPL"] = <<>>
    /\ session_state.news_data.val["TCS"] = <<"h1", "h2", "h3">>
====
